---- MODULE Spec2Model ----
(***************************************************************************)
(* A model of SgCG.py: the weighted reduction, the feature/mask aligner,   *)
(* the label downscaler, the three contrastive loss variants and the       *)
(* ContrastiveLoss facade.                                                 *)
(*                                                                         *)
(* Conventions.                                                            *)
(*  - An optional argument is a sequence of length 0 (None) or 1.          *)
(*  - A tensor is a record [shape, data]: shape is the sequence of its     *)
(*    sizes, data its elements in row-major (contiguous) order.            *)
(*  - Floating-point values are exact: a loss value is a quantity, a       *)
(*    finite sum of terms c * a with a rational coefficient c and an atom  *)
(*    a that is the number 1, the natural logarithm of a rational, or a    *)
(*    named real the model does not compute. A scalar result num/den is    *)
(*    the quantity num over the integer den.                               *)
(*    Nothing is rounded.                                                  *)
(*  - The outcome of a call is a record [kind, shape, data, num, den];     *)
(*    kind is "tensor", "scalar" or the name of the exception raised.      *)
(***************************************************************************)
EXTENDS Integers, Sequences, FiniteSets, TLC

VARIABLES
    red,      \* weight_reduce_loss: the arguments and the outcome of a call
    prep,     \* contrast_preparations: the arguments and the outcome of a call
    ds,       \* downscale_label_ratio: the arguments and the returned reference
    heap,     \* tensor storages: storage id -> contents
    variant,  \* proto/dist/bank_contrastive: the arguments and the outcome
    self,     \* the ContrastiveLoss object, or the record of a failed construction
    fwd,      \* the last ContrastiveLoss.forward call and its outcome
    trace     \* the calls forward made to the variant during its last invocation

vars == <<red, prep, ds, heap, variant, self, fwd, trace>>

None == <<>>
Some(x) == <<x>>
IsNone(o) == o = <<>>
Get(o) == o[1]

RECURSIVE SumTo(_, _)
SumTo(s, n) == IF n = 0 THEN 0 ELSE s[n] + SumTo(s, n - 1)
SumSeq(s) == SumTo(s, Len(s))

RECURSIVE ProdSeq(_)
ProdSeq(s) == IF s = <<>> THEN 1 ELSE Head(s) * ProdSeq(Tail(s))

\* Quantities. A term is <<n, d, atom>>, the rational n/d (d > 0) times the
\* atom; an atom is <<name, a, b>> with a and b sequences of integers. One is
\* the number 1 and Ln(p, q) the natural logarithm of p/q.
One == <<"one", <<>>, <<>>>>
Ln(p, q) == <<"ln", <<p>>, <<q>>>>
QZero == <<>>
Plain(v) == << <<v, 1, One>> >>
QAdd(x, y) == x \o y
QScale(x, n, d) == [i \in 1..Len(x) |-> <<x[i][1] * n, x[i][2] * d, x[i][3]>>]
RECURSIVE QSumTo(_, _)
QSumTo(s, n) == IF n = 0 THEN QZero ELSE QAdd(QSumTo(s, n - 1), s[n])
\* The sum of a sequence of quantities.
QSumSeq(s) == QSumTo(s, Len(s))
\* The coefficient of atom a in quantity x, as the rational CoefNum / CoefDen.
CoefDen(x, a) == ProdSeq([i \in 1..Len(x) |-> IF x[i][3] = a THEN x[i][2] ELSE 1])
CoefNum(x, a) ==
    SumSeq([i \in 1..Len(x) |-> IF x[i][3] = a THEN x[i][1] * (CoefDen(x, a) \div x[i][2]) ELSE 0])
QAtoms(x) == {x[i][3] : i \in 1..Len(x)}
\* x and y are the same quantity: every atom has the same coefficient in both.
QEq(x, y) ==
    \A a \in QAtoms(x) \cup QAtoms(y) :
        CoefNum(x, a) * CoefDen(y, a) = CoefNum(y, a) * CoefDen(x, a)
\* x is the plain number n/d.
QIs(x, n, d) == QEq(x, QScale(Plain(n), 1, d))

\* Outcomes of a call.
Tensor(shape, data) == [kind |-> "tensor", shape |-> shape, data |-> data, num |-> QZero, den |-> 1]
Scalar(n, d) == [kind |-> "scalar", shape |-> <<>>, data |-> <<>>, num |-> n, den |-> d]
Raise(exc) == [kind |-> exc, shape |-> <<>>, data |-> <<>>, num |-> QZero, den |-> 1]
Returned(r) == r.kind \in {"tensor", "scalar"}
NoCall == [kind |-> "idle", shape |-> <<>>, data |-> <<>>, num |-> QZero, den |-> 1]

\* The scalar outcome r is the plain number n/d (a scalar with den = 0 is the
\* non-finite result of a division by zero and equals no number).
ScalarIs(r, n, d) == r.kind = "scalar" /\ r.den # 0 /\ QIs(r.num, n * r.den, d)

(***************************************************************************)
(* Weighted reduction                                                      *)
(***************************************************************************)

\* The largest number of elements of a loss tensor tried.
MaxLen == 3

\* Tensor.numel()
Numel(t) == ProdSeq(t.shape)

\* The index into a tensor of size n along one dimension that element i of a
\* broadcast result reads.
BIdx(i, n) == IF n = 1 THEN 1 ELSE i

Broadcastable(s1, s2) ==
    /\ Len(s1) = Len(s2)
    /\ \A k \in 1..Len(s1) : s1[k] = s2[k] \/ s1[k] = 1 \/ s2[k] = 1

\* loss * weight for two tensors of the same rank (1 or 2), with broadcasting;
\* the elements of loss are quantities, those of weight are numbers.
TensorMul(l, w) ==
    LET shape == [k \in 1..Len(l.shape) |->
                     IF l.shape[k] = 1 THEN w.shape[k] ELSE l.shape[k]]
        At(t, i, j) == IF Len(t.shape) = 1
                       THEN t.data[BIdx(j, t.shape[1])]
                       ELSE t.data[(BIdx(i, t.shape[1]) - 1) * t.shape[2] + BIdx(j, t.shape[2])]
        rows == IF Len(shape) = 1 THEN 1 ELSE shape[1]
        cols == IF Len(shape) = 1 THEN shape[1] ELSE shape[2]
    IN  [shape |-> shape,
         data |-> [p \in 1..(rows * cols) |->
                      LET i == ((p - 1) \div cols) + 1
                          j == ((p - 1) % cols) + 1
                      IN  QScale(At(l, i, j), At(w, i, j), 1)]]

\* reduce_loss(loss, reduction): none -> loss, mean -> loss.mean(), sum -> loss.sum()
reduce_loss(loss, reduction) ==
    CASE reduction = "none" -> Tensor(loss.shape, loss.data)
      [] reduction = "mean" -> Scalar(QSumSeq(loss.data), Numel(loss))
      [] reduction = "sum"  -> Scalar(QSumSeq(loss.data), 1)
      [] OTHER -> Raise("ValueError")

\* The checks on weight that precede the reduction: the two assertions, then
\* the broadcast of loss * weight. "ok" when the product is defined.
WeightCheck(loss, weight) ==
    IF IsNone(weight) THEN "ok"
    ELSE IF Len(Get(weight).shape) # Len(loss.shape) THEN "AssertionError"
    ELSE IF Len(Get(weight).shape) > 1
            /\ ~(Get(weight).shape[2] = 1 \/ Get(weight).shape[2] = loss.shape[2])
         THEN "AssertionError"
    ELSE IF ~Broadcastable(loss.shape, Get(weight).shape) THEN "RuntimeError"
    ELSE "ok"

\* The weighted elementwise loss: loss * weight, or loss without a weight.
Weighted(loss, weight) == IF IsNone(weight) THEN loss ELSE TensorMul(loss, Get(weight))

\* A reduction that lets reduction="sum" through when avg_factor is given.
weight_reduce_loss_sum_accepted(loss, weight, reduction, avg_factor) ==
    IF WeightCheck(loss, weight) # "ok" THEN Raise(WeightCheck(loss, weight))
    ELSE IF IsNone(avg_factor) THEN reduce_loss(Weighted(loss, weight), reduction)
    ELSE IF reduction = "mean"
         THEN Scalar(QSumSeq(Weighted(loss, weight).data), Get(avg_factor))
    ELSE IF reduction = "sum"
         THEN Scalar(QSumSeq(Weighted(loss, weight).data), 1)
    ELSE Tensor(Weighted(loss, weight).shape, Weighted(loss, weight).data)

\* A reduction whose avg_factor branch sums the unweighted loss.
weight_reduce_loss_unweighted_avg(loss, weight, reduction, avg_factor) ==
    IF WeightCheck(loss, weight) # "ok" THEN Raise(WeightCheck(loss, weight))
    ELSE IF IsNone(avg_factor) THEN reduce_loss(Weighted(loss, weight), reduction)
    ELSE IF reduction = "mean"
         THEN Scalar(QSumSeq(loss.data), Get(avg_factor))
    ELSE IF reduction # "none" THEN Raise("ValueError")
    ELSE Tensor(Weighted(loss, weight).shape, Weighted(loss, weight).data)

\* weight_reduce_loss(loss, weight, reduction, avg_factor)
weight_reduce_loss(loss, weight, reduction, avg_factor) ==
    IF WeightCheck(loss, weight) # "ok" THEN Raise(WeightCheck(loss, weight))
    ELSE IF IsNone(avg_factor) THEN reduce_loss(Weighted(loss, weight), reduction)
    ELSE IF reduction = "mean"
         THEN Scalar(QSumSeq(Weighted(loss, weight).data), Get(avg_factor))
    ELSE IF reduction # "none" THEN Raise("ValueError")
    ELSE Tensor(Weighted(loss, weight).shape, Weighted(loss, weight).data)

\* The inputs of the reduction.
LossVals == {1, 2, 3}
WeightVals == {0, 1}
Reductions == {"none", "mean", "sum"}
AvgFactors == {None, Some(1), Some(2)}

Shapes(n) == {<<n>>, <<1, n>>, <<n, 1>>}
LossShapes == {<<0>>} \cup UNION {Shapes(n) : n \in 1..MaxLen}
TensorsOf(shape, vals) ==
    {[shape |-> shape, data |-> d] : d \in [1..ProdSeq(shape) -> vals]}
Ones(shape) == [shape |-> shape, data |-> [p \in 1..ProdSeq(shape) |-> 1]]

\* The weights tried with a loss: none, every 0/1 weight of the loss's shape,
\* a broadcast weight of size 1, one of the wrong rank, one whose first size
\* cannot be broadcast, and (rank 2) one with a column count the assertion
\* rejects.
WeightsFor(loss) ==
    LET r == Len(loss.shape)
        one == [k \in 1..r |-> 1]
    IN  {None}
        \cup {Some(w) : w \in TensorsOf(loss.shape, WeightVals)}
        \cup {Some(w) : w \in TensorsOf(one, WeightVals)}
        \cup {Some(Ones(IF r = 1 THEN <<1, 1>> ELSE <<1>>))}
        \cup (IF loss.shape[1] # 1
              THEN {Some(Ones([k \in 1..r |-> IF k = 1 THEN loss.shape[1] + 2 ELSE loss.shape[k]]))}
              ELSE {})
        \cup (IF r = 2 THEN {Some(Ones(<<loss.shape[1], loss.shape[2] + 2>>))} ELSE {})

\* The value of a variable no operation of the specification at hand touches.
Idle == "idle"

InitReduce ==
    /\ \E s \in LossShapes : \E l \in TensorsOf(s, LossVals) :
       \E w \in WeightsFor(l) : \E r \in Reductions : \E a \in AvgFactors :
          red = [loss |-> l, weight |-> w, reduction |-> r, avg_factor |-> a,
                 out |-> NoCall]
    /\ prep = Idle /\ ds = Idle /\ heap = Idle /\ variant = Idle
    /\ self = Idle /\ fwd = Idle /\ trace = Idle

\* The tensor of numbers t as a tensor of quantities.
PlainTensor(t) == [shape |-> t.shape, data |-> [p \in 1..Len(t.data) |-> Plain(t.data[p])]]

\* One call of weight_reduce_loss on the drawn arguments.
CallWeightReduceLoss ==
    /\ red.out = NoCall
    /\ red' = [red EXCEPT !.out = weight_reduce_loss(PlainTensor(red.loss), red.weight,
                                                       red.reduction, red.avg_factor)]
    /\ UNCHANGED <<prep, ds, heap, variant, self, fwd, trace>>

NextReduce == CallWeightReduceLoss

SpecReduce == InitReduce /\ [][NextReduce]_vars

\* The weighted values V = L*W the claims speak of, as numbers: the
\* elementwise product for a weight of the loss's shape, the loss itself
\* without a weight, the broadcast product otherwise.
RedV ==
    IF IsNone(red.weight) THEN red.loss.data
    ELSE IF Get(red.weight).shape = red.loss.shape
    THEN [p \in 1..Len(red.loss.data) |-> red.loss.data[p] * Get(red.weight).data[p]]
    ELSE LET n == IF Len(red.loss.data) = 1 THEN Len(Get(red.weight).data)
                  ELSE Len(red.loss.data)
         IN  [p \in 1..n |-> red.loss.data[BIdx(p, Len(red.loss.data))]
                              * Get(red.weight).data[BIdx(p, Len(Get(red.weight).data))]]
RedSum == SumSeq(RedV)
RedCount == Len(RedV)
RedDone == red.out # NoCall
RedWeightOk == WeightCheck(red.loss, red.weight) = "ok"
\* The outcome is the tensor of the numbers V.
RedOutIsV ==
    /\ red.out.kind = "tensor"
    /\ Len(red.out.data) = RedCount
    /\ \A p \in 1..RedCount : QIs(red.out.data[p], RedV[p], 1)

\* C3: with the weight accepted, weight_reduce_loss returns, for V = L*W (V = L
\* without a weight): without avg_factor, V for 'none', sum(V)/count(V) for
\* 'mean', sum(V) for 'sum'; with avg_factor, sum(V)/avg_factor for 'mean' and
\* V unchanged for 'none'.
C3_ReductionValues ==
    (RedDone /\ RedWeightOk) =>
        /\ red.reduction = "none" => RedOutIsV
        /\ (IsNone(red.avg_factor) /\ red.reduction = "mean") =>
              /\ red.out.kind = "scalar"
              /\ RedCount = 0 => red.out.den = 0
              /\ RedCount > 0 => ScalarIs(red.out, RedSum, RedCount)
        /\ (IsNone(red.avg_factor) /\ red.reduction = "sum") =>
              ScalarIs(red.out, RedSum, 1)
        /\ (~IsNone(red.avg_factor) /\ red.reduction = "mean") =>
              ScalarIs(red.out, RedSum, Get(red.avg_factor))

\* The example of the claim: L=[1,2,3], W=[1,0,1], mean with avg_factor=2 is 2.
C3_Witness ==
    /\ RedDone
    /\ red.loss = [shape |-> <<3>>, data |-> <<1, 2, 3>>]
    /\ red.weight = Some([shape |-> <<3>>, data |-> <<1, 0, 1>>])
    /\ red.reduction = "mean" /\ red.avg_factor = Some(2)
    /\ ScalarIs(red.out, 2, 1)

\* C4: with avg_factor given and reduction 'sum' the call returns no loss, and
\* whenever the weight is accepted the failure is the ValueError; a call with
\* reduction 'mean' or 'none' never raises ValueError.
C4_SumWithAvgFactorRejected ==
    RedDone =>
        /\ (~IsNone(red.avg_factor) /\ red.reduction = "sum") =>
              /\ ~Returned(red.out)
              /\ RedWeightOk => red.out.kind = "ValueError"
        /\ red.reduction \in {"mean", "none"} => red.out.kind # "ValueError"

C4_Witness ==
    /\ RedDone /\ RedWeightOk
    /\ ~IsNone(red.avg_factor) /\ red.reduction = "sum" /\ ~IsNone(red.weight)
    /\ red.out.kind = "ValueError"

(***************************************************************************)
(* Feature/mask aligner                                                    *)
(***************************************************************************)

\* The largest number of tokens (batch * height * width) of a feature map or
\* of a mask tried.
MaxTokens == 4

IgnoreIndex == 255

\* Element (b, c, h, w), all 0-based, of a contiguous 4-D tensor.
At4(t, b, c, h, w) ==
    t.data[((b * t.shape[2] + c) * t.shape[3] + h) * t.shape[4] + w + 1]

\* The shape's last two sizes: shape[-2:].
Spatial(shape) == <<shape[Len(shape) - 1], shape[Len(shape)]>>

\* F.interpolate(mask.float(), size=(H, W), mode='nearest').long() of a 4-D
\* mask: output pixel (h, w) reads input pixel (floor(h*Hm/H), floor(w*Wm/W)).
Interpolate(mask, H, W) ==
    LET B == mask.shape[1]
        K == mask.shape[2]
    IN  [shape |-> <<B, K, H, W>>,
         data |-> [p \in 1..(B * K * H * W) |->
                      LET w == (p - 1) % W
                          h == ((p - 1) \div W) % H
                          k == ((p - 1) \div (W * H)) % K
                          b == (p - 1) \div (W * H * K)
                      IN  At4(mask, b, k, (h * mask.shape[3]) \div H,
                                         (w * mask.shape[4]) \div W)]]

\* mask.argmax(dim=1) of a 4-D mask: per pixel the first channel holding the
\* largest value.
Argmax1(mask) ==
    LET B == mask.shape[1]
        K == mask.shape[2]
        H == mask.shape[3]
        W == mask.shape[4]
    IN  [shape |-> <<B, H, W>>,
         data |-> [p \in 1..(B * H * W) |->
                      LET w == (p - 1) % W
                          h == ((p - 1) \div W) % H
                          b == (p - 1) \div (W * H)
                      IN  CHOOSE k \in 0..(K - 1) :
                             /\ \A j \in 0..(K - 1) : At4(mask, b, j, h, w) <= At4(mask, b, k, h, w)
                             /\ \A j \in 0..(k - 1) : At4(mask, b, j, h, w) < At4(mask, b, k, h, w)]]

\* A flattening that skips the permute: view(-1, channels) of the (B, C, H, W)
\* storage as it lies.
PermuteFlatten_no_permute(feat) ==
    [p \in 1..(feat.shape[1] * feat.shape[3] * feat.shape[4]) |->
        [c \in 1..feat.shape[2] |-> feat.data[(p - 1) * feat.shape[2] + c]]]

\* feat.permute(0, 2, 3, 1).contiguous().view(-1, channels): row p (raster
\* order: batch, then row, then column) is the channel vector of pixel p.
PermuteFlatten(feat) ==
    LET H == feat.shape[3]
        W == feat.shape[4]
    IN  [p \in 1..(feat.shape[1] * H * W) |->
            [c \in 1..feat.shape[2] |->
                At4(feat, (p - 1) \div (W * H), c - 1, ((p - 1) \div W) % H, (p - 1) % W)]]

\* x[msk]: the rows of x at the positions where keep is true, in order.
RECURSIVE BoolIndex(_, _)
BoolIndex(x, keep) ==
    IF x = <<>> THEN <<>>
    ELSE IF Head(keep) THEN <<Head(x)>> \o BoolIndex(Tail(x), Tail(keep))
    ELSE BoolIndex(Tail(x), Tail(keep))

PrepOut(kind, feat, mask) == [kind |-> kind, feat |-> feat, mask |-> mask]

\* contrast_preparations(feat, mask, use_avg_pool, scale_min_ratio,
\* num_classes, ignore_index); the function reads none of use_avg_pool,
\* scale_min_ratio and num_classes.
contrast_preparations(feat, mask, ignore_index) ==
    LET resize == Spatial(mask.shape) # Spatial(feat.shape)
        m1 == IF resize THEN Interpolate(mask, feat.shape[3], feat.shape[4]) ELSE mask
        m2 == IF Len(m1.shape) = 4 /\ m1.shape[2] > 1 THEN Argmax1(m1) ELSE m1
        rows == PermuteFlatten(feat)
        labels == m2.data
        msk == [p \in 1..Len(labels) |-> labels[p] # ignore_index]
    IN  IF resize /\ Len(mask.shape) # 4 THEN PrepOut("ValueError", <<>>, <<>>)
        ELSE IF Len(rows) # Len(labels) THEN PrepOut("AssertionError", <<>>, <<>>)
        ELSE PrepOut("ok", BoolIndex(rows, msk), BoolIndex(labels, msk))

\* The inputs of the aligner: a feature map whose every element is its own
\* storage offset (so that each element names the place it came from), and a
\* mask of the same spatial size or not, with or without a channel axis, or
\* with two score channels.
ChannelCounts == {1, 2}
Labels == {0, 1, 2, IgnoreIndex}
Scores == {0, 1}
Dims3 == {<<b, h, w>> \in (1..MaxTokens) \X (1..MaxTokens) \X (1..MaxTokens) :
             b * h * w <= MaxTokens}
FeatMaps == {[shape |-> <<d[1], c, d[2], d[3]>>,
              data |-> [p \in 1..(d[1] * c * d[2] * d[3]) |-> p]] :
                d \in Dims3, c \in ChannelCounts}
MasksFor(feat) ==
    LET B == feat.shape[1]
    IN  UNION {TensorsOf(<<B, 1, d[2], d[3]>>, Labels) : d \in {e \in Dims3 : e[1] = B}}
        \cup TensorsOf(<<B, feat.shape[3], feat.shape[4]>>, Labels)
        \cup TensorsOf(<<B, 2, feat.shape[3], feat.shape[4]>>, Scores)
        \cup {Ones(<<B + 1, 1, feat.shape[3], feat.shape[4]>>),
              Ones(<<B, feat.shape[3] + 1, feat.shape[4]>>)}

InitPrep ==
    /\ \E f \in FeatMaps : \E m \in MasksFor(f) :
          prep = [feat |-> f, mask |-> m, out |-> PrepOut("idle", <<>>, <<>>)]
    /\ red = Idle /\ ds = Idle /\ heap = Idle /\ variant = Idle
    /\ self = Idle /\ fwd = Idle /\ trace = Idle

\* One call of contrast_preparations on the drawn arguments.
CallContrastPreparations ==
    /\ prep.out.kind = "idle"
    /\ prep' = [prep EXCEPT !.out = contrast_preparations(prep.feat, prep.mask, IgnoreIndex)]
    /\ UNCHANGED <<red, ds, heap, variant, self, fwd, trace>>

NextPrep == CallContrastPreparations

SpecPrep == InitPrep /\ [][NextPrep]_vars

\* The case C2 is about: a call that has returned, on a one-channel mask of the
\* feature map's batch and spatial size.
PrepSameSize ==
    /\ prep.out.kind = "ok"
    /\ prep.mask.shape \in {<<prep.feat.shape[1], 1, prep.feat.shape[3], prep.feat.shape[4]>>,
                            <<prep.feat.shape[1], prep.feat.shape[3], prep.feat.shape[4]>>}
\* The raster positions (batch-major, then row, then column; 1-based) whose
\* label is not the ignore index, and the i-th of them.
PrepKept == {p \in 1..Len(prep.mask.data) : prep.mask.data[p] # IgnoreIndex}
PrepKeptAt(i) == CHOOSE p \in PrepKept : Cardinality({q \in PrepKept : q <= p}) = i
\* The channel vector of the pixel at raster position p, read from the
\* (batch, channels, H, W) feature map.
PrepPixel(p) ==
    LET H == prep.feat.shape[3]
        W == prep.feat.shape[4]
        C == prep.feat.shape[2]
        b == (p - 1) \div (H * W)
        hw == (p - 1) % (H * W)
    IN  [c \in 1..C |-> prep.feat.data[b * C * H * W + (c - 1) * H * W + hw + 1]]

\* C2: on a mask of the feature map's spatial size, contrast_preparations
\* returns exactly the tokens whose label is not ignore_index, in raster order;
\* row i of the feature is the channel vector of the pixel of label i; no
\* returned label is ignore_index.
C2_IgnoreFiltering ==
    PrepSameSize =>
        /\ Len(prep.out.mask) = Cardinality(PrepKept)
        /\ Len(prep.out.feat) = Cardinality(PrepKept)
        /\ \A i \in 1..Len(prep.out.mask) :
              /\ prep.out.mask[i] = prep.mask.data[PrepKeptAt(i)]
              /\ prep.out.feat[i] = PrepPixel(PrepKeptAt(i))
              /\ prep.out.mask[i] # IgnoreIndex

\* Labels [0,1,255,2] of a 2x2 two-channel feature map: tokens 1, 2 and 4
\* survive, in that order, each with its own two channel values.
C2_Witness ==
    /\ PrepSameSize
    /\ prep.feat.shape = <<1, 2, 2, 2>>
    /\ prep.mask.data = <<0, 1, IgnoreIndex, 2>>
    /\ prep.out.mask = <<0, 1, 2>>
    /\ prep.out.feat = << <<1, 5>>, <<2, 6>>, <<4, 8>> >>

(***************************************************************************)
(* Label downscaler                                                        *)
(*                                                                         *)
(* Tensors live in heap, a sequence of storages; a reference is an index   *)
(* into it. clone() allocates a storage; an indexed assignment writes the  *)
(* storage of the tensor it is applied to.                                 *)
(***************************************************************************)

\* gt.clone() that returns gt itself.
Clone_alias(h, ref) == [heap |-> h, ref |-> ref]

\* t.clone(): a new storage holding a copy of the contents.
Clone(h, ref) == [heap |-> Append(h, h[ref]), ref |-> Len(h) + 1]

\* out[out == old] = new, in place.
MaskedFill(h, ref, old, new) ==
    [h EXCEPT ![ref].data = [p \in 1..Len(h[ref].data) |->
                                IF h[ref].data[p] = old THEN new ELSE h[ref].data[p]]]

\* F.one_hot(out.squeeze(1), n).permute(0, 3, 1, 2): channel k of pixel (b, y, x).
OneHot(t, b, k, y, x) == IF At4(t, b, 0, y, x) = k THEN 1 ELSE 0

\* F.avg_pool2d(one_hot.float(), kernel_size=s) at output cell (b, k, i, j),
\* times s*s: the sum of channel k over the s x s window of the cell.
AvgPoolSum(t, s, b, k, i, j) ==
    SumSeq([q \in 1..(s * s) |-> OneHot(t, b, k, i * s + ((q - 1) \div s), j * s + ((q - 1) % s))])

\* The first index (from 0) holding the largest of the n values v[0..n-1].
FirstMax(v, n) ==
    CHOOSE k \in 0..(n - 1) :
        /\ \A m \in 0..(n - 1) : v[m] <= v[k]
        /\ \A m \in 0..(k - 1) : v[m] < v[k]

\* torch.max(out, dim=1) at a cell: the largest channel value and the first
\* channel holding it.
MaxDim1(t, s, n, b, i, j) ==
    CHOOSE r \in {[values |-> v[FirstMax(v, n)], indices |-> FirstMax(v, n)] :
                     v \in {[k \in 0..(n - 1) |-> AvgPoolSum(t, s, b, k, i, j)]}} : TRUE

DsResult(h, kind, ref) == [heap |-> h, kind |-> kind, ref |-> ref]

\* A pooling without the reset of the cells whose ratio is below min_ratio.
PoolCells_no_min_ratio(lab, scale_factor, min_ratio, n_classes, ignore_index) ==
    LET trg_h == lab.shape[3] \div scale_factor
        trg_w == lab.shape[4] \div scale_factor
    IN  [p \in 1..(lab.shape[1] * trg_h * trg_w) |->
            LET m == MaxDim1(lab, scale_factor, n_classes + 1, (p - 1) \div (trg_w * trg_h),
                             ((p - 1) \div trg_w) % trg_h, (p - 1) % trg_w)
            IN  IF m.indices = n_classes THEN ignore_index ELSE m.indices]

\* Lines 163-169 on the placeholder-filled label map lab: the one-hot
\* encoding, the average pooling, the maximum over the channels, and the two
\* resets to ignore_index; the cells of the result in raster order.
PoolCells(lab, scale_factor, min_ratio, n_classes, ignore_index) ==
    LET trg_h == lab.shape[3] \div scale_factor
        trg_w == lab.shape[4] \div scale_factor
        ignore_substitute == n_classes
    IN  [p \in 1..(lab.shape[1] * trg_h * trg_w) |->
            LET j == (p - 1) % trg_w
                i == ((p - 1) \div trg_w) % trg_h
                b == (p - 1) \div (trg_w * trg_h)
                m == MaxDim1(lab, scale_factor, n_classes + 1, b, i, j)
                c == IF m.indices = ignore_substitute THEN ignore_index ELSE m.indices
            IN  IF m.values * min_ratio[2] < min_ratio[1] * scale_factor * scale_factor
                THEN ignore_index ELSE c]

\* downscale_label_ratio(gt, scale_factor, min_ratio, n_classes, ignore_index)
\* on the heap h; min_ratio is the rational min_ratio[1] / min_ratio[2].
downscale_label_ratio(h, gt, scale_factor, min_ratio, n_classes, ignore_index) ==
    IF scale_factor < 1 THEN DsResult(h, "AssertionError", 0)
    ELSE IF scale_factor = 1 THEN DsResult(Clone(h, gt).heap, "ok", Clone(h, gt).ref)
    ELSE IF h[gt].shape[2] # 1 THEN DsResult(h, "AssertionError", 0)
    ELSE
      LET bs == h[gt].shape[1]
          trg_h == h[gt].shape[3] \div scale_factor
          trg_w == h[gt].shape[4] \div scale_factor
          out == Clone(h, gt)
      IN  CHOOSE r \in
            {IF \E p \in 1..Len(h1[out.ref].data) : h1[out.ref].data[p] \notin 0..n_classes
             THEN DsResult(h1, "RuntimeError", 0)
             ELSE IF trg_h = 0 \/ trg_w = 0 THEN DsResult(h1, "RuntimeError", 0)
             ELSE DsResult(Append(h1, [shape |-> <<bs, 1, trg_h, trg_w>>,
                                       data |-> PoolCells(h1[out.ref], scale_factor, min_ratio,
                                                          n_classes, ignore_index)]),
                           "ok", Len(h1) + 1) :
                h1 \in {MaskedFill(out.heap, out.ref, ignore_index, n_classes)}} : TRUE

\* The inputs of the downscaler: a one-batch label map of at most DsMaxPixels
\* pixels over two classes and the ignore value, a scale factor and a minimum
\* ratio.
DsMaxPixels == 8
DsLabels == {0, 1, IgnoreIndex}
DsClasses == {2}
DsShapes == {<<1, 2>>} \cup
            {d \in (2..DsMaxPixels) \X (2..DsMaxPixels) : d[1] * d[2] <= DsMaxPixels}
DsParams == {<<0, <<3, 4>> >>, <<1, <<3, 4>> >>, <<3, <<3, 4>> >>,
             <<2, <<1, 2>> >>, <<2, <<3, 4>> >>, <<2, <<1, 1>> >>}

DsCall(gt, h0, prm, n) ==
    [gt |-> gt, gt0 |-> h0[gt], scale_factor |-> prm[1], min_ratio |-> prm[2],
     n_classes |-> n, kind |-> "idle", ref |-> 0, ret0 |-> <<>>, wrote |-> "none"]

InitDownscale ==
    /\ \E d \in DsShapes : \E t \in TensorsOf(<<1, 1, d[1], d[2]>>, DsLabels)
                                       \cup {Ones(<<1, 2, d[1], d[2]>>)} :
       \E prm \in DsParams : \E n \in DsClasses :
          /\ heap = <<t>>
          /\ ds = DsCall(1, heap, prm, n)
    /\ red = Idle /\ prep = Idle /\ variant = Idle
    /\ self = Idle /\ fwd = Idle /\ trace = Idle

\* One call of downscale_label_ratio on the drawn arguments.
CallDownscaleLabelRatio ==
    /\ ds.kind = "idle"
    /\ \E r \in {downscale_label_ratio(heap, ds.gt, ds.scale_factor, ds.min_ratio,
                                         ds.n_classes, IgnoreIndex)} :
           /\ heap' = r.heap
           /\ ds' = [ds EXCEPT !.kind = r.kind, !.ref = r.ref,
                               !.ret0 = IF r.kind = "ok" THEN r.heap[r.ref] ELSE <<>>]
    /\ UNCHANGED <<red, prep, variant, self, fwd, trace>>

NextDownscale == CallDownscaleLabelRatio

SpecDownscale == InitDownscale /\ [][NextDownscale]_vars

\* The case C8 is about: a call with scale_factor >= 2 that has returned.
DsPooled == ds.kind = "ok" /\ ds.scale_factor >= 2
\* The input pixels (row, column; 0-based) that output cell (i, j) covers, and
\* how many of them hold label c.
DsBlock(i, j) ==
    {<<y, x>> \in (0..(ds.gt0.shape[3] - 1)) \X (0..(ds.gt0.shape[4] - 1)) :
        /\ y \div ds.scale_factor = i
        /\ x \div ds.scale_factor = j}
DsCount(i, j, c) ==
    Cardinality({q \in DsBlock(i, j) : ds.gt0.data[q[1] * ds.gt0.shape[4] + q[2] + 1] = c})
\* Class c is a real class that no other label (ignore included) outnumbers in
\* the block of cell (i, j) and that fills at least min_ratio of it.
DsQualifies(i, j, c) ==
    /\ c \in 0..(ds.n_classes - 1)
    /\ \A o \in DsLabels : DsCount(i, j, o) <= DsCount(i, j, c)
    /\ DsCount(i, j, c) * ds.min_ratio[2]
          >= ds.min_ratio[1] * ds.scale_factor * ds.scale_factor
DsCell(i, j) == ds.ret0.data[i * ds.ret0.shape[4] + j + 1]

\* C8: with scale_factor s >= 2 every output cell is a real class holding the
\* largest number of the s x s pixels it covers with count/(s*s) >= min_ratio,
\* and is ignore_index exactly when no real class does so.
C8_MajorityOrIgnore ==
    DsPooled =>
        /\ ds.ret0.shape = <<1, 1, ds.gt0.shape[3] \div ds.scale_factor,
                              ds.gt0.shape[4] \div ds.scale_factor>>
        /\ \A i \in 0..(ds.ret0.shape[3] - 1) : \A j \in 0..(ds.ret0.shape[4] - 1) :
              /\ DsCell(i, j) # IgnoreIndex => DsQualifies(i, j, DsCell(i, j))
              /\ DsCell(i, j) = IgnoreIndex =>
                    ~\E c \in 0..(ds.n_classes - 1) : DsQualifies(i, j, c)

\* A 2x4 map, scale 2, min_ratio 3/4: the left block is all class 1 and yields
\* 1, the right block is split 50/50 between classes 0 and 1 and yields ignore.
C8_Witness ==
    /\ DsPooled /\ ds.scale_factor = 2 /\ ds.min_ratio = <<3, 4>>
    /\ ds.gt0 = [shape |-> <<1, 1, 2, 4>>, data |-> <<1, 1, 0, 1, 1, 1, 1, 0>>]
    /\ ds.ret0.data = <<1, IgnoreIndex>>

\* The caller's side of the downscaler: after the call returns, one write
\* into the returned label map or into the input label map.
AlMaxPixels == 4
AlShapes == {d \in (1..AlMaxPixels) \X (1..AlMaxPixels) : d[1] * d[2] <= AlMaxPixels}

InitAlias ==
    /\ \E d \in AlShapes : \E t \in TensorsOf(<<1, 1, d[1], d[2]>>, DsLabels)
                                       \cup {Ones(<<1, 2, d[1], d[2]>>)} :
       \E prm \in DsParams : \E n \in DsClasses :
          /\ heap = <<t>>
          /\ ds = DsCall(1, heap, prm, n)
    /\ red = Idle /\ prep = Idle /\ variant = Idle
    /\ self = Idle /\ fwd = Idle /\ trace = Idle

\* returned[...] = v: an indexed assignment to the tensor the call returned.
WriteReturned ==
    /\ ds.kind = "ok" /\ ds.wrote = "none"
    /\ \E p \in 1..Len(heap[ds.ref].data) : \E v \in DsLabels :
          /\ v # heap[ds.ref].data[p]
          /\ heap' = [heap EXCEPT ![ds.ref].data[p] = v]
    /\ ds' = [ds EXCEPT !.wrote = "out"]
    /\ UNCHANGED <<red, prep, variant, self, fwd, trace>>

\* gt[...] = v: an indexed assignment to the tensor the call was given.
WriteInput ==
    /\ ds.kind = "ok" /\ ds.wrote = "none"
    /\ \E p \in 1..Len(heap[ds.gt].data) : \E v \in DsLabels :
          /\ v # heap[ds.gt].data[p]
          /\ heap' = [heap EXCEPT ![ds.gt].data[p] = v]
    /\ ds' = [ds EXCEPT !.wrote = "in"]
    /\ UNCHANGED <<red, prep, variant, self, fwd, trace>>

NextAlias == CallDownscaleLabelRatio \/ WriteReturned \/ WriteInput

SpecAlias == InitAlias /\ [][NextAlias]_vars

\* C9: with scale_factor = 1 the returned map equals the input in every cell
\* and lives in a storage of its own; for every scale_factor the call leaves
\* the input as it was; a later write to the returned map leaves the input
\* unchanged, and a later write to the input leaves the returned map unchanged.
C9_CopyNotAlias ==
    ds.kind # "idle" =>
        /\ (ds.kind = "ok" /\ ds.scale_factor = 1) =>
              /\ ds.ret0 = ds.gt0
              /\ ds.ref # ds.gt
        /\ ds.wrote # "in" => heap[ds.gt] = ds.gt0
        /\ (ds.kind = "ok" /\ ds.wrote # "out") => heap[ds.ref] = ds.ret0

\* scale_factor = 1 on a map with an ignore cell, then a write to the returned
\* map: the returned map has changed, the input has not.
C9_Witness ==
    /\ ds.kind = "ok" /\ ds.scale_factor = 1 /\ ds.wrote = "out"
    /\ \E p \in 1..Len(ds.gt0.data) : ds.gt0.data[p] = IgnoreIndex
    /\ ds.ret0 = ds.gt0
    /\ heap[ds.ref] # ds.ret0
    /\ heap[ds.gt] = ds.gt0

(***************************************************************************)
(* The loss variants                                                       *)
(*                                                                         *)
(* A call is a record c of the arguments. feat is the sequence of branch   *)
(* feature maps: the argument is that list when c.listed and its only      *)
(* element otherwise; mean, covariance and bank are given per branch in    *)
(* the same way. A matrix is a sequence of rows and a row a sequence of    *)
(* numbers. bank[k] is the deque of class k - 1: a sequence of exemplar    *)
(* tensors, each a sequence of rows.                                       *)
(*                                                                         *)
(* exp(x / contrast_temp) is taken at contrast_temp = 1 / ln 4, where it   *)
(* is the rational 4^x for every x that is a multiple of 1/2.              *)
(***************************************************************************)

RECURSIVE Pow2(_)
Pow2(n) == IF n <= 0 THEN 1 ELSE 2 * Pow2(n - 1)

\* u . v
Dot(u, v) == SumSeq([k \in 1..Len(u) |-> u[k] * v[k]])

\* s[0] \o s[1] \o ...: torch.cat(list, dim=0) of a sequence of row sequences.
RECURSIVE Concat(_)
Concat(s) == IF s = <<>> THEN <<>> ELSE Head(s) \o Concat(Tail(s))

\* The least of the numbers of the non-empty sequence s.
MinSeq(s) == CHOOSE x \in {s[k] : k \in 1..Len(s)} : \A k \in 1..Len(s) : x <= s[k]

\* The argument x as the function body uses it after `x = x[index]`.
Branch(c, x) == IF c.index >= 0 THEN x[c.index + 1] ELSE x[1]

\* torch.tensor(0., requires_grad=True).cuda(): the zero scalar where the host
\* has CUDA, the error of Tensor.cuda() where it has not.
ZeroCuda(cuda) == IF cuda THEN Scalar(QZero, 1) ELSE Raise("CudaError")

\* proto_reg(feat, mean, contrast_temp, contrast_norm) on the surviving rows:
\* sum(log(softmax(mean(feat) . mean^T / contrast_temp))) / contrast_norm, kept
\* as one atom named by the sum and the number of the rows and by the
\* num_classes that contrast_norm = num_classes * ln(num_classes) comes from.
proto_reg(rows, mean, mean_grad, feat_grad, num_classes, cuda) ==
    IF IsNone(mean) \/ mean_grad \/ ~feat_grad THEN Raise("AssertionError")
    ELSE IF Len(rows) = 0 THEN ZeroCuda(cuda)
    ELSE Scalar(<< <<1, 1, <<"proto_reg",
                              [a \in 1..Len(rows[1]) |-> SumSeq([t \in 1..Len(rows) |-> rows[t][a]])],
                              <<Len(rows), num_classes>> >> >> >>, 1)

\* loss += reg_weight * reg, for the reduced or unreduced loss and the scalar reg.
AddReg(loss, reg_weight, reg) ==
    IF ~Returned(loss) THEN loss
    ELSE IF ~Returned(reg) THEN reg
    ELSE IF loss.kind = "scalar"
    THEN Scalar(QAdd(loss.num, QScale(reg.num, reg_weight * loss.den, reg.den)), loss.den)
    ELSE Tensor(loss.shape, [p \in 1..Len(loss.data) |->
                                QAdd(loss.data[p], QScale(reg.num, reg_weight, reg.den))])

\* A regulariser added to every elementwise loss before the reduction.
ReduceAndRegularise_before_reduction(c, rows, loss) ==
    LET reg == proto_reg(rows, IF IsNone(c.mean) THEN None ELSE Some(Branch(c, Get(c.mean))),
                         c.mean_grad, c.feat_grad, c.num_classes, c.cuda)
    IN  IF c.reg_weight > 0 /\ ~Returned(reg) THEN reg
        ELSE weight_reduce_loss(
                 [shape |-> <<Len(loss)>>,
                  data |-> [p \in 1..Len(loss) |->
                               IF c.reg_weight > 0
                               THEN QAdd(loss[p], QScale(reg.num, c.reg_weight, reg.den))
                               ELSE loss[p]]],
                 c.weight, c.reduction, c.avg_factor)

\* Lines 270-279, 344-353 and 415-424: the weighting, the reduction and the
\* regulariser, on the elementwise loss of the surviving rows.
ReduceAndRegularise(c, rows, loss) ==
    LET r == weight_reduce_loss([shape |-> <<Len(loss)>>, data |-> loss], c.weight,
                                c.reduction, c.avg_factor)
    IN  IF c.reg_weight > 0 /\ Returned(r)
        THEN AddReg(r, c.reg_weight,
                    proto_reg(rows, IF IsNone(c.mean) THEN None ELSE Some(Branch(c, Get(c.mean))),
                              c.mean_grad, c.feat_grad, c.num_classes, c.cuda))
        ELSE r

\* F.cross_entropy(sim, label, weight=class_weight, reduction='none') of one
\* row of logits sim (the temperature not yet divided out): the quantity
\* -class_weight[label] * ln(exp(sim[label]/T) / sum_k exp(sim[k]/T)).
CrossEntropy(sim, label, class_weight) ==
    LET m == MinSeq(sim)
        e == [k \in 1..Len(sim) |-> Pow2(2 * (sim[k] - m))]
    IN  << <<0 - (IF IsNone(class_weight) THEN 1 ELSE Get(class_weight)[label + 1]), 1,
             Ln(e[label + 1], SumSeq(e))>> >>

\* proto_contrastive(feat, mask, mean, index, ..., weight, class_weight,
\* reduction, avg_factor, reg_weight, ignore_index)
proto_contrastive(c) ==
    IF c.index >= 0 /\ ~c.listed THEN Raise("AssertionError")
    ELSE IF c.index >= 0 /\ IsNone(c.mean) THEN Raise("AssertionError")
    ELSE IF c.index < 0 /\ c.listed THEN Raise("AttributeError")
    ELSE CHOOSE r \in
      {IF p.kind # "ok" THEN Raise(p.kind)
       ELSE IF IsNone(c.mean) \/ c.mean_grad \/ ~c.feat_grad THEN Raise("AssertionError")
       ELSE IF Len(p.feat) = 0 THEN ZeroCuda(c.cuda)
       ELSE IF \E t \in 1..Len(p.mask) :
                   p.mask[t] \notin 0..(Len(Branch(c, Get(c.mean))) - 1)
       THEN Raise("IndexError")
       ELSE ReduceAndRegularise(c, p.feat,
              [t \in 1..Len(p.feat) |->
                  CrossEntropy([k \in 1..Len(Branch(c, Get(c.mean))) |->
                                   Dot(p.feat[t], Branch(c, Get(c.mean))[k])],
                               p.mask[t], c.class_weight)]) :
          p \in {contrast_preparations(Branch(c, c.feat), c.mask, IgnoreIndex)}} : TRUE

\* The rows of x at the positions whose label is cls: feat[mask == cls].
RowsOfClass(rows, labels, cls) ==
    BoolIndex(rows, [t \in 1..Len(labels) |-> labels[t] = cls])

\* A per-class loss whose softmax term leaves exp_pos out of the denominator.
BankTokenLoss_no_pos_in_denominator(row, cls, bank, num_classes) ==
    LET pos == [j \in 1..Len(Concat(bank[cls + 1])) |-> 2 * Dot(row, Concat(bank[cls + 1])[j])]
        others == SelectSeq([k \in 1..num_classes |-> k - 1], LAMBDA k : k # cls)
        neg == [i \in 1..Len(others) |->
                   (2 * SumSeq([j \in 1..Len(Concat(bank[others[i] + 1])) |->
                                   Dot(row, Concat(bank[others[i] + 1])[j])]))
                     \div Len(Concat(bank[others[i] + 1]))]
        m == MinSeq(pos \o neg)
    IN  QSumSeq([j \in 1..Len(pos) |->
                    << <<0 - 1, Len(pos),
                         Ln(Pow2(pos[j] - m),
                            SumSeq([i \in 1..Len(neg) |-> Pow2(neg[i] - m)]))>> >>])

\* Lines 396-409 for one row of class cls: with pos[j] the similarity to the
\* j-th exemplar of cls and neg[i] the mean similarity to the exemplars of the
\* i-th other class, -mean_j ln(exp(pos[j]) / (exp(pos[j]) + sum_i exp(neg[i]))).
\* pos and neg hold the exponents of 2, the least of them taken out of the
\* numerator and the denominator alike.
BankTokenLoss(row, cls, bank, num_classes) ==
    LET pos == [j \in 1..Len(Concat(bank[cls + 1])) |-> 2 * Dot(row, Concat(bank[cls + 1])[j])]
        others == SelectSeq([k \in 1..num_classes |-> k - 1], LAMBDA k : k # cls)
        neg == [i \in 1..Len(others) |->
                   (2 * SumSeq([j \in 1..Len(Concat(bank[others[i] + 1])) |->
                                   Dot(row, Concat(bank[others[i] + 1])[j])]))
                     \div Len(Concat(bank[others[i] + 1]))]
        m == MinSeq(pos \o neg)
    IN  QSumSeq([j \in 1..Len(pos) |->
                    << <<0 - 1, Len(pos),
                         Ln(Pow2(pos[j] - m),
                            Pow2(pos[j] - m)
                              + SumSeq([i \in 1..Len(neg) |-> Pow2(neg[i] - m)]))>> >>])

\* What stops the loop of lines 393-410 before it yields a loss: bank[idx] of a
\* class the bank does not hold (IndexError), torch.cat of an empty deque or,
\* with fewer than two classes, of the empty list of negatives (RuntimeError).
BankFault(bank, num_classes) ==
    LET bad == {k \in 1..num_classes : k > Len(bank) \/ bank[k] = <<>>}
        first == CHOOSE k \in bad : \A j \in bad : k <= j
    IN  IF bad # {} THEN (IF first > Len(bank) THEN "IndexError" ELSE "RuntimeError")
        ELSE IF num_classes < 2 THEN "RuntimeError"
        ELSE "ok"

\* A loop that leaves the losses in the order of the aligned rows.
BankLoop_raster_order(rows, labels, bank, num_classes) ==
    LET keep == BoolIndex([t \in 1..Len(rows) |-> t],
                          [t \in 1..Len(rows) |-> labels[t] \in 0..(num_classes - 1)])
    IN  [k \in 1..Len(keep) |->
            BankTokenLoss(rows[keep[k]], labels[keep[k]], bank, num_classes)]

\* Lines 391-412: for cls in range(num_classes) the losses of the rows of class
\* cls, concatenated in class order.
BankLoop(rows, labels, bank, num_classes) ==
    Concat([k \in 1..num_classes |->
               LET cls_feat == RowsOfClass(rows, labels, k - 1)
               IN  [t \in 1..Len(cls_feat) |->
                       BankTokenLoss(cls_feat[t], k - 1, bank, num_classes)]])

\* bank_contrastive(feat, mask, bank, mean, index, ..., weight, reduction,
\* avg_factor, reg_weight, ignore_index)
bank_contrastive(c) ==
    IF c.index >= 0 /\ (~c.listed \/ IsNone(c.bank)) THEN Raise("AssertionError")
    ELSE IF c.index >= 0 /\ c.reg_weight > 0 /\ IsNone(c.mean) THEN Raise("AssertionError")
    ELSE IF c.index < 0 /\ c.listed THEN Raise("AttributeError")
    ELSE CHOOSE r \in
      {IF p.kind # "ok" THEN Raise(p.kind)
       ELSE IF IsNone(c.bank) THEN Raise("AssertionError")
       ELSE IF c.reg_weight > 0 /\ (IsNone(c.mean) \/ c.mean_grad) THEN Raise("AssertionError")
       ELSE IF ~c.feat_grad THEN Raise("AssertionError")
       ELSE IF Len(p.feat) = 0 THEN ZeroCuda(c.cuda)
       ELSE IF BankFault(Branch(c, Get(c.bank)), c.num_classes) # "ok"
       THEN Raise(BankFault(Branch(c, Get(c.bank)), c.num_classes))
       ELSE ReduceAndRegularise(c, p.feat,
              BankLoop(p.feat, p.mask, Branch(c, Get(c.bank)), c.num_classes)) :
          p \in {contrast_preparations(Branch(c, c.feat), c.mask, IgnoreIndex)}} : TRUE

\* dist_contrastive(feat, mask, mean, covariance, ratio, index, ..., weight,
\* class_weight, reduction, avg_factor, reg_weight, ignore_index). The
\* cross-entropy of a row over the logits (feat . mean^T + 0.5 feat^2 .
\* (covariance * ratio / T)^T) / T is kept as one atom named by the row and its
\* label; the second term 0.5 * sum(feat^2 * covariance[label] * ratio / T) / T
\* is a rational multiple of the atom 1/T^2.
dist_contrastive(c) ==
    IF c.index >= 0 /\ (~c.listed \/ IsNone(c.mean) \/ IsNone(c.covariance))
    THEN Raise("AssertionError")
    ELSE IF c.index < 0 /\ c.listed THEN Raise("AttributeError")
    ELSE CHOOSE r \in
      {IF p.kind # "ok" THEN Raise(p.kind)
       ELSE IF IsNone(c.mean) \/ IsNone(c.covariance) \/ c.mean_grad \/ c.cov_grad
               \/ ~c.feat_grad
       THEN Raise("AssertionError")
       ELSE IF Len(p.feat) = 0 THEN ZeroCuda(c.cuda)
       ELSE IF \E t \in 1..Len(p.mask) :
                   p.mask[t] \notin 0..(Len(Branch(c, Get(c.mean))) - 1)
       THEN Raise("IndexError")
       ELSE ReduceAndRegularise(c, p.feat,
              [t \in 1..Len(p.feat) |->
                  << <<IF IsNone(c.class_weight) THEN 1 ELSE Get(c.class_weight)[p.mask[t] + 1],
                       1, <<"ce_dist", p.feat[t], <<p.mask[t]>> >> >>,
                     <<c.ratio * SumSeq([a \in 1..Len(p.feat[t]) |->
                                  p.feat[t][a] * p.feat[t][a]
                                    * Branch(c, Get(c.covariance))[p.mask[t] + 1][a]]),
                       2, <<"1/T^2", <<>>, <<>> >> >> >>]) :
          p \in {contrast_preparations(Branch(c, c.feat), c.mask, IgnoreIndex)}} : TRUE

\* The inputs of the variants. A feature map holds VMaxTokens tokens at most,
\* of one channel; token p of pattern q holds ((p + q) mod 3) - 1.
VMaxTokens == 2
VFeat(n, q) == [shape |-> <<1, 1, 1, n>>, data |-> [p \in 1..n |-> ((p + q) % 3) - 1]]
VLabels == {0, 1, 2, IgnoreIndex}
VMeans == << << <<1>>, <<0 - 1>> >>, << <<0>>, <<1>> >> >>
VCovariances == << << <<1>>, <<2>> >>, << <<2>>, <<1>> >> >>
\* Class 0 with one exemplar of one row and class 1 with two exemplars of one
\* row; class 0 with one exemplar of two rows and class 1 with one of one row.
VBankA == << << << <<1>> >> >>, << << <<0 - 1>> >>, << <<1>> >> >> >>
VBankB == << << << <<0>>, <<1>> >> >>, << << <<0 - 1>> >> >> >>
VBankEmptyDeque == << << << <<1>> >> >>, << >> >>
VNames == {"proto", "dist", "bank"}
\* The weight tried with a mask: a 1/0 weight as long as the mask has
\* surviving tokens.
VWeight(mask) ==
    LET n == Cardinality({p \in 1..Len(mask.data) : mask.data[p] # IgnoreIndex})
    IN  [shape |-> <<n>>, data |-> [p \in 1..n |-> p % 2]]

\* The calls the variants are meant for: every required argument supplied,
\* the feature gradient-tracked, the prototypes not: q is the pattern of the
\* features, bk the bank of the first branch.
VCall(nm, form, m, q, bk, w, cw, r, a, g, cu) ==
    [name |-> nm, listed |-> form[1], index |-> form[2],
     feat |-> IF form[1] THEN <<VFeat(Len(m.data), q), VFeat(Len(m.data), 1 - q)>>
              ELSE <<VFeat(Len(m.data), q)>>,
     feat_grad |-> TRUE, mask |-> m,
     mean |-> Some(VMeans), mean_grad |-> FALSE,
     covariance |-> Some(VCovariances), cov_grad |-> FALSE, ratio |-> 1,
     bank |-> Some(<<bk, VBankA>>),
     weight |-> IF w THEN Some(VWeight(m)) ELSE None,
     class_weight |-> IF cw THEN Some(<<1, 2>>) ELSE None,
     reduction |-> r, avg_factor |-> a, reg_weight |-> g, num_classes |-> 2,
     cuda |-> cu, out |-> NoCall]

VMasks == UNION {TensorsOf(<<1, 1, 1, k>>, VLabels) : k \in 1..VMaxTokens}

\* listed, index and the pattern; reduction and avg_factor; weight and
\* class_weight given or not.
VForms == {<<FALSE, 0 - 1, 0>>, <<FALSE, 0 - 1, 1>>, <<TRUE, 0, 0>>, <<TRUE, 1, 0>>}
VReductions == {<<"none", None>>, <<"mean", None>>, <<"mean", Some(2)>>,
                <<"sum", None>>, <<"sum", Some(2)>>}
VWeights == {<<FALSE, FALSE>>, <<TRUE, FALSE>>, <<FALSE, TRUE>>}

\* The calls the variants are meant for.
VCalls(c) ==
    \/ \E nm \in {"proto", "dist"}, form \in VForms, m \in VMasks, w \in VWeights,
          r \in VReductions, g \in {0, 1}, cu \in BOOLEAN :
          c = VCall(nm, <<form[1], form[2]>>, m, form[3], VBankA, w[1], w[2],
                    r[1], r[2], g, cu)
    \/ \E bk \in {VBankA, VBankB}, form \in VForms, m \in VMasks, w \in BOOLEAN,
          r \in VReductions, g \in {0, 1}, cu \in BOOLEAN :
          c = VCall("bank", <<form[1], form[2]>>, m, form[3], bk, w, FALSE,
                    r[1], r[2], g, cu)

\* The calls that the faulty calls are changed from: two tokens of the classes
\* 0 and 1, or two ignored tokens.
VBase ==
    {VCall(nm, <<FALSE, 0 - 1>>, [shape |-> <<1, 1, 1, 2>>, data |-> d], 0, VBankA,
           FALSE, FALSE, "mean", None, g, cu) :
        nm \in VNames, d \in {<<0, 1>>, <<IgnoreIndex, IgnoreIndex>>},
        g \in {0, 1}, cu \in BOOLEAN}

\* The calls that leave a requirement out: one change each to the call b.
VFaulty(b) ==
    {[b EXCEPT !.feat_grad = FALSE],
     [b EXCEPT !.mean = None],
     [b EXCEPT !.mean_grad = TRUE],
     [b EXCEPT !.covariance = None],
     [b EXCEPT !.cov_grad = TRUE],
     [b EXCEPT !.bank = None],
     [b EXCEPT !.bank = Some(<<VBankEmptyDeque, VBankA>>)],
     [b EXCEPT !.num_classes = 3],
     [b EXCEPT !.listed = TRUE, !.feat = <<b.feat[1], b.feat[1]>>],
     [b EXCEPT !.index = 0],
     [b EXCEPT !.index = 0, !.listed = TRUE, !.feat = <<b.feat[1], b.feat[1]>>,
               !.mean = None],
     [b EXCEPT !.index = 0, !.listed = TRUE, !.feat = <<b.feat[1], b.feat[1]>>,
               !.covariance = None],
     [b EXCEPT !.index = 0, !.listed = TRUE, !.feat = <<b.feat[1], b.feat[1]>>,
               !.bank = None]}

InitVariant ==
    /\ \/ VCalls(variant)
       \/ \E b \in VBase : variant \in VFaulty(b)
    /\ red = Idle
    /\ prep = Idle
    /\ ds = Idle
    /\ heap = Idle
    /\ self = Idle
    /\ fwd = Idle
    /\ trace = Idle

\* The three loss variants as forward() reaches them: self.contrast_criterion.
contrast_criterion(c) ==
    CASE c.name = "proto" -> proto_contrastive(c)
      [] c.name = "dist" -> dist_contrastive(c)
      [] c.name = "bank" -> bank_contrastive(c)

\* One call of a variant; out is what it returned or raised.
CallVariant ==
    /\ variant.out.kind = "idle"
    /\ \E r \in {contrast_criterion(variant)} : variant' = [variant EXCEPT !.out = r]
    /\ UNCHANGED <<red, prep, ds, heap, self, fwd, trace>>

NextVariant == CallVariant

SpecVariant == InitVariant /\ [][NextVariant]_vars

\* The call supplies what its variant requires: the list form with an index
\* and only then, a gradient-tracked feature, mean (and covariance, bank)
\* given and free of gradient.
VRequired(c) ==
    /\ c.listed = (c.index >= 0)
    /\ c.feat_grad /\ ~c.mean_grad /\ ~c.cov_grad
    /\ (c.name \in {"proto", "dist"} => ~IsNone(c.mean))
    /\ (c.name = "dist" => ~IsNone(c.covariance))
    /\ (c.name = "bank" => ~IsNone(c.bank) /\ (c.reg_weight > 0 => ~IsNone(c.mean)))

\* The positions of the mask whose label is not ignore_index.
VSurvivors(c) == {p \in 1..Len(c.mask.data) : c.mask.data[p] # IgnoreIndex}

VCalled == variant.out.kind # "idle"

\* C1: when every token's label equals ignore_index, a variant called with what
\* it requires returns the scalar zero and does not raise. The host without
\* CUDA refutes it: the call raises at `.cuda()`.
C1_EmptyBatchZero ==
    (VCalled /\ VRequired(variant) /\ VSurvivors(variant) = {})
        => ScalarIs(variant.out, 0, 1)

\* On the host with CUDA the empty batch yields the scalar zero.
C1_EmptyBatchZeroWithCuda ==
    (VCalled /\ VRequired(variant) /\ VSurvivors(variant) = {} /\ variant.cuda)
        => ScalarIs(variant.out, 0, 1)

C1_EmptyBatchReached ==
    /\ VCalled /\ VRequired(variant) /\ VSurvivors(variant) = {}
    /\ variant.cuda /\ variant.name = "dist" /\ variant.reg_weight > 0
    /\ ScalarIs(variant.out, 0, 1)

\* The row and the label of the token at position p of the selected branch.
VRow(c, p) == <<Branch(c, c.feat).data[p]>>
VLabel(c, p) == c.mask.data[p]

\* The surviving token that comes k-th by class, tokens of one class in the
\* order of their positions.
VSorted(c, k) ==
    CHOOSE p \in VSurvivors(c) :
        Cardinality({q \in VSurvivors(c) :
                        \/ VLabel(c, q) < VLabel(c, p)
                        \/ VLabel(c, q) = VLabel(c, p) /\ q <= p}) = k

\* The surviving token that comes k-th by position.
VRaster(c, k) ==
    CHOOSE p \in VSurvivors(c) : Cardinality({q \in VSurvivors(c) : q <= p}) = k

\* reg_weight * proto_reg of the surviving rows, zero where reg_weight is 0.
VReg(c) ==
    IF c.reg_weight > 0
    THEN QScale(proto_reg([k \in 1..Cardinality(VSurvivors(c)) |-> VRow(c, VRaster(c, k))],
                          Some(Branch(c, Get(c.mean))), c.mean_grad, c.feat_grad,
                          c.num_classes, c.cuda).num, c.reg_weight, 1)
    ELSE QZero

\* The quantity is a sum of terms -a * ln(p/q) with a >= 0 and 0 < p <= q.
QNonNegLogs(x) ==
    \A i \in 1..Len(x) :
        /\ x[i][1] <= 0 /\ x[i][2] > 0
        /\ x[i][3][1] = "ln"
        /\ 0 < x[i][3][2][1] /\ x[i][3][2][1] <= x[i][3][3][1]

\* bank_contrastive is called with reduction 'none', a bank with an exemplar
\* for every class and labels that are classes or ignore_index.
C10Pre(c) ==
    /\ c.name = "bank" /\ c.reduction = "none" /\ VRequired(c)
    /\ Len(Branch(c, Get(c.bank))) >= c.num_classes
    /\ \A k \in 1..c.num_classes : Branch(c, Get(c.bank))[k] # <<>>
    /\ \A p \in VSurvivors(c) : VLabel(c, p) \in 0..(c.num_classes - 1)

\* The loss of the token that comes k-th by class, before weight and regulariser.
C10TokenLoss(c, k) ==
    BankTokenLoss(VRow(c, VSorted(c, k)), VLabel(c, VSorted(c, k)),
                  Branch(c, Get(c.bank)), c.num_classes)

\* The k-th value returned: the weighted loss of that token plus the regulariser.
C10Value(c, k) ==
    QAdd(IF IsNone(c.weight) THEN C10TokenLoss(c, k)
         ELSE QScale(C10TokenLoss(c, k), Get(c.weight).data[k], 1),
         VReg(c))

FMaxBranches == 2
FMaxCalls == 2

\* get_class_weight(class_weight): None, a list, the path of a .npy file that
\* np.load reads or fails to read, or a path with no supported extension.
get_class_weight(class_weight, readable) ==
    CASE class_weight = "none" -> [kind |-> "ok", value |-> None]
      [] class_weight = "list" -> [kind |-> "ok", value |-> Some(<<1, 2>>)]
      [] class_weight = "w.npy" -> IF readable THEN [kind |-> "ok", value |-> Some(<<1, 2>>)]
                                   ELSE [kind |-> "OSError", value |-> None]
      [] class_weight = "w.txt" -> [kind |-> "ValueError", value |-> None]

\* A selection that takes the bank flag for no flag.
SelectCriterion_bank_as_proto(use_dist, use_bank) ==
    IF use_dist THEN "dist" ELSE "proto"

\* Lines 476-481.
SelectCriterion(use_dist, use_bank) ==
    IF use_dist THEN "dist" ELSE IF use_bank THEN "bank" ELSE "proto"

\* ContrastiveLoss.__init__(use_dist, use_bank, use_reg, ..., num_classes, ...,
\* reduction, class_weight, loss_weight, reg_relative_weight)
ContrastiveLoss_init(a) ==
    LET field == [kind |-> "object", use_dist |-> a.use_dist, use_bank |-> a.use_bank,
                  use_reg |-> a.use_reg, num_classes |-> a.num_classes,
                  reduction |-> a.reduction, loss_weight |-> a.loss_weight,
                  given |-> a.loss_weight, reg_weight |-> a.reg_relative_weight,
                  class_weight |-> None, contrast_criterion |-> "unset"]
        cw == get_class_weight(a.class_weight, a.readable)
    IN  IF a.use_dist /\ a.use_bank THEN [field EXCEPT !.kind = "AssertionError"]
        ELSE IF IsNone(a.num_classes) THEN [field EXCEPT !.kind = "AssertionError"]
        ELSE IF cw.kind # "ok" THEN [field EXCEPT !.kind = cw.kind]
        ELSE [field EXCEPT !.class_weight = cw.value,
                           !.contrast_criterion = SelectCriterion(a.use_dist, a.use_bank)]

LossWeights == {[list |-> FALSE, v |-> <<1>>], [list |-> FALSE, v |-> <<2>>],
                [list |-> TRUE, v |-> <<1, 2>>]}

InitArgs ==
    [use_dist : BOOLEAN, use_bank : BOOLEAN, use_reg : BOOLEAN,
     num_classes : {None, Some(2)}, reduction : {"mean", "sum"},
     class_weight : {"none", "list", "w.npy", "w.txt"}, readable : BOOLEAN,
     loss_weight : LossWeights, reg_relative_weight : {1}]

Unbuilt ==
    [kind |-> "unbuilt", use_dist |-> FALSE, use_bank |-> FALSE, use_reg |-> FALSE,
     num_classes |-> None, reduction |-> "mean", loss_weight |-> [list |-> FALSE, v |-> <<1>>],
     given |-> [list |-> FALSE, v |-> <<1>>], reg_weight |-> 1, class_weight |-> None,
     contrast_criterion |-> "unset"]

\* The arguments of forward: feat a list of n branches or one tensor (n = 1),
\* each of two tokens, the mask, reduction_override; mean, covariance and bank
\* come with them, per branch where feat is a list.
FMasks == {[shape |-> <<1, 1, 1, 2>>, data |-> d] :
              d \in {<<1, 0>>, <<IgnoreIndex, 0>>, <<IgnoreIndex, IgnoreIndex>>}}
FArgs ==
    {[list |-> f[1], n |-> f[2], mask |-> m, override |-> o, weight |-> None,
      avg_factor |-> None, mean_given |-> TRUE] :
        f \in {<<FALSE, 1>>} \cup {<<TRUE, k>> : k \in 0..FMaxBranches},
        m \in FMasks, o \in {None, Some("none"), Some("median")}}

\* Lines 514 and 529: reg_weight=self.reg_weight if self.use_reg else 0.
RegWeightPassed(s) == IF s.use_reg THEN s.reg_weight ELSE 0

\* The call forward makes to the variant for index (-1 where feat is a tensor).
\* mean is one of the keyword arguments the caller may leave out.
FCall(s, a, cuda, index) ==
    [name |-> s.contrast_criterion, listed |-> a.list, index |-> index,
     feat |-> [b \in 1..a.n |-> VFeat(2, b % 2)], feat_grad |-> TRUE, mask |-> a.mask,
     mean |-> IF a.mean_given THEN Some([b \in 1..a.n |-> VMeans[(b % 2) + 1]]) ELSE None,
     mean_grad |-> FALSE,
     covariance |-> Some([b \in 1..a.n |-> VCovariances[(b % 2) + 1]]),
     cov_grad |-> FALSE, ratio |-> 1,
     bank |-> Some([b \in 1..a.n |-> IF b % 2 = 1 THEN VBankA ELSE VBankB]),
     weight |-> a.weight, class_weight |-> s.class_weight,
     reduction |-> IF IsNone(a.override) THEN s.reduction ELSE Get(a.override),
     avg_factor |-> a.avg_factor, reg_weight |-> RegWeightPassed(s),
     num_classes |-> Get(s.num_classes), cuda |-> cuda, out |-> NoCall]

\* w * r and x + y of returned losses.
ScaleOutcome(w, r) ==
    IF r.kind = "scalar" THEN Scalar(QScale(r.num, w, 1), r.den)
    ELSE Tensor(r.shape, [p \in 1..Len(r.data) |-> QScale(r.data[p], w, 1)])

AddOutcome(x, y) ==
    IF x.kind = "scalar" /\ y.kind = "scalar"
    THEN Scalar(QAdd(QScale(x.num, y.den, 1), QScale(y.num, x.den, 1)), x.den * y.den)
    ELSE IF x.kind = "tensor" /\ y.kind = "tensor"
    THEN Tensor(x.shape, [p \in 1..Len(x.data) |-> QAdd(x.data[p], y.data[p])])
    ELSE IF x.kind = "scalar"
    THEN Tensor(y.shape, [p \in 1..Len(y.data) |-> QAdd(QScale(x.num, 1, x.den), y.data[p])])
    ELSE Tensor(x.shape, [p \in 1..Len(x.data) |-> QAdd(x.data[p], QScale(y.num, 1, y.den))])

\* sum(list): 0 + list[0] + list[1] + ...
RECURSIVE SumOutcomesTo(_, _)
SumOutcomesTo(rs, n) ==
    IF n = 0 THEN Scalar(QZero, 1)
    ELSE IF n = 1 THEN rs[1]
    ELSE AddOutcome(SumOutcomesTo(rs, n - 1), rs[n])
SumOutcomes(rs) == SumOutcomesTo(rs, Len(rs))

FTrace(s, indices) ==
    [k \in 1..Len(indices) |-> [name |-> s.contrast_criterion, index |-> indices[k],
                                reg_weight |-> RegWeightPassed(s)]]

\* ContrastiveLoss.forward(feat, mask, reduction_override=..., **kwargs): the
\* object after the call, what the call returned or raised, and the calls it
\* made to the variant.
forward(s, a, cuda) ==
    IF ~IsNone(a.override) /\ Get(a.override) \notin Reductions
    THEN [self |-> s, out |-> Raise("AssertionError"), trace |-> <<>>]
    ELSE IF ~IsNone(s.class_weight) /\ a.list
    THEN [self |-> s, out |-> Raise("AttributeError"), trace |-> <<>>]
    ELSE IF a.list
    THEN LET lw == IF s.loss_weight.list THEN s.loss_weight
                   ELSE [list |-> TRUE, v |-> [i \in 1..a.n |-> s.loss_weight.v[1]]]
             s1 == [s EXCEPT !.loss_weight = lw]
             r == [i \in 1..a.n |-> contrast_criterion(FCall(s1, a, cuda, i - 1))]
             bad == {i \in 1..a.n : i > Len(lw.v) \/ ~Returned(r[i])}
             stop == CHOOSE i \in bad : \A j \in bad : i <= j
         IN  IF bad = {}
             THEN [self |-> s1,
                   out |-> SumOutcomes([i \in 1..a.n |-> ScaleOutcome(lw.v[i], r[i])]),
                   trace |-> FTrace(s, [i \in 1..a.n |-> i - 1])]
             ELSE IF stop > Len(lw.v)
             THEN [self |-> s1, out |-> Raise("IndexError"),
                   trace |-> FTrace(s, [i \in 1..(stop - 1) |-> i - 1])]
             ELSE [self |-> s1, out |-> r[stop], trace |-> FTrace(s, [i \in 1..stop |-> i - 1])]
    ELSE LET r == contrast_criterion(FCall(s, a, cuda, 0 - 1))
         IN  [self |-> s,
              out |-> IF ~Returned(r) THEN r
                      ELSE IF s.loss_weight.list THEN Raise("TypeError")
                      ELSE ScaleOutcome(s.loss_weight.v[1], r),
              trace |-> FTrace(s, <<0 - 1>>)]

\* No object yet; the host has CUDA or has not.
Init ==
    /\ self = Unbuilt
    /\ fwd \in {[cuda |-> cu, count |-> 0, called |-> FALSE,
                 args |-> [list |-> FALSE, n |-> 1,
                           mask |-> [shape |-> <<1, 1, 1, 2>>, data |-> <<1, 0>>],
                           override |-> None, weight |-> None, avg_factor |-> None,
                           mean_given |-> TRUE],
                 out |-> NoCall] : cu \in BOOLEAN}
    /\ trace = <<>>
    /\ red = Idle
    /\ prep = Idle
    /\ ds = Idle
    /\ heap = Idle
    /\ variant = Idle

\* ContrastiveLoss(...)
Construct ==
    /\ self.kind = "unbuilt"
    /\ \E a \in InitArgs : self' = ContrastiveLoss_init(a)
    /\ UNCHANGED <<red, prep, ds, heap, variant, fwd, trace>>

\* One invocation of the object.
Forward ==
    /\ self.kind = "object"
    /\ fwd.count < FMaxCalls
    /\ \E a \in FArgs : \E r \in {forward(self, a, fwd.cuda)} :
          /\ self' = r.self
          /\ fwd' = [fwd EXCEPT !.count = fwd.count + 1, !.called = TRUE, !.args = a,
                                !.out = r.out]
          /\ trace' = r.trace
    /\ UNCHANGED <<red, prep, ds, heap, variant>>

Next == Construct \/ Forward

Spec == Init /\ [][Next]_vars

\* Two returned losses are the same kind of value and equal as quantities.
OutcomeEq(x, y) ==
    /\ x.kind = y.kind
    /\ x.kind = "scalar" => /\ x.den # 0 /\ y.den # 0
                            /\ QEq(QScale(x.num, y.den, 1), QScale(y.num, x.den, 1))
    /\ x.kind = "tensor" => /\ Len(x.data) = Len(y.data)
                            /\ \A p \in 1..Len(x.data) : QEq(x.data[p], y.data[p])

\* The loss of the variant for the arguments of the last invocation and index.
FLoss(index) == contrast_criterion(FCall(self, fwd.args, fwd.cuda, index))

\* The last invocation passed the assertion on reduction_override and every
\* variant call it asks for returns a loss.
FListServed ==
    /\ fwd.called /\ fwd.args.list
    /\ IsNone(fwd.args.override) \/ Get(fwd.args.override) \in Reductions
    /\ \A i \in 0..(fwd.args.n - 1) : Returned(FLoss(i))

FSingleServed ==
    /\ fwd.called /\ ~fwd.args.list
    /\ IsNone(fwd.args.override) \/ Get(fwd.args.override) \in Reductions
    /\ Returned(FLoss(0 - 1))

\* The weighted sum of the branch losses under the scalar given at construction.
FWeightedSum ==
    SumOutcomes([i \in 1..fwd.args.n |-> ScaleOutcome(self.given.v[1], FLoss(i - 1))])

FBranchCalls == FTrace(self, [i \in 1..fwd.args.n |-> i - 1])

\* C5: forward with a list of n features, on every invocation of an object
\* built with a scalar loss_weight and no class_weight, calls the variant once
\* per branch with index 0..n-1 and returns the sum of loss_weight times the
\* branch losses. An invocation with more branches than the first list
\* invocation refutes it: self.loss_weight[i] raises IndexError.
C5_ListForwardEveryInvocation ==
    (FListServed /\ ~self.given.list /\ IsNone(self.class_weight))
        => /\ trace = FBranchCalls
           /\ OutcomeEq(fwd.out, FWeightedSum)

\* The first invocation of the object, with no class_weight, does as C5 says.
C5_FirstInvocation ==
    (FListServed /\ ~self.given.list /\ IsNone(self.class_weight) /\ fwd.count = 1)
        => /\ trace = FBranchCalls
           /\ OutcomeEq(fwd.out, FWeightedSum)

\* C6: forward with one feature tensor, on every invocation of an object built
\* with a scalar loss_weight, returns loss_weight times the loss of the
\* variant. The invocation after a list invocation refutes it:
\* self.loss_weight is a list by then and the product raises TypeError.
C6_SingleForwardEveryInvocation ==
    (FSingleServed /\ ~self.given.list)
        => OutcomeEq(fwd.out, ScaleOutcome(self.given.v[1], FLoss(0 - 1)))

\* The first invocation of the object does as C6 says.
C6_FirstInvocation ==
    (FSingleServed /\ ~self.given.list /\ fwd.count = 1)
        => OutcomeEq(fwd.out, ScaleOutcome(self.given.v[1], FLoss(0 - 1)))

\* C7: with use_dist and use_bank both enabled the constructor fails and no
\* object exists; an object that exists has dist_contrastive as its criterion
\* when use_dist is enabled, bank_contrastive when use_bank is, and
\* proto_contrastive when neither is; every call forward makes to the variant
\* goes to that criterion; and with num_classes given and the class weights
\* loaded, a constructor that was not handed both flags yields the object.
C7_VariantSelection ==
    /\ (self.kind # "unbuilt" /\ self.use_dist /\ self.use_bank)
          => self.kind = "AssertionError" /\ ~fwd.called /\ trace = <<>>
    /\ self.kind # "object" => ~fwd.called /\ trace = <<>>
    /\ self.kind = "object"
          => /\ ~(self.use_dist /\ self.use_bank)
             /\ self.use_dist => self.contrast_criterion = "dist"
             /\ self.use_bank => self.contrast_criterion = "bank"
             /\ (~self.use_dist /\ ~self.use_bank) => self.contrast_criterion = "proto"
             /\ \A k \in 1..Len(trace) : trace[k].name = self.contrast_criterion
    /\ (self.kind \notin {"unbuilt", "object"} /\ ~(self.use_dist /\ self.use_bank))
          => \/ IsNone(self.num_classes)
             \/ self.kind \in {"OSError", "ValueError"}

\* An object built with use_bank whose second invocation, on a list of two
\* features, called bank_contrastive for both branches.
C7_Witness ==
    /\ self.kind = "object" /\ self.use_bank /\ ~self.use_dist
    /\ fwd.count = 2 /\ fwd.args.list /\ Len(trace) = 2
    /\ trace[1].name = "bank" /\ trace[2].name = "bank"
    /\ Returned(fwd.out)

\* A constructor handed both flags has run.
C7_BothFlagsWitness ==
    self.kind = "AssertionError" /\ self.use_dist /\ self.use_bank

(***************************************************************************)
(* The regulariser through the facade: one invocation of an object, with   *)
(* weight, avg_factor and reduction_override given or not and mean among   *)
(* the keyword arguments or not.                                           *)
(***************************************************************************)
RInitArgs ==
    [use_dist : BOOLEAN, use_bank : BOOLEAN, use_reg : BOOLEAN,
     num_classes : {Some(2)}, reduction : {"mean"},
     class_weight : {"none", "list"}, readable : {TRUE},
     loss_weight : {[list |-> FALSE, v |-> <<1>>], [list |-> FALSE, v |-> <<2>>]},
     reg_relative_weight : {1, 2}]

RMasks == {[shape |-> <<1, 1, 1, 2>>, data |-> d] :
              d \in {<<1, 0>>, <<0, 0>>, <<IgnoreIndex, 1>>, <<IgnoreIndex, IgnoreIndex>>}}

RArgs ==
    {[list |-> f[1], n |-> f[2], mask |-> m, override |-> o,
      weight |-> IF wa[1] THEN Some(VWeight(m)) ELSE None, avg_factor |-> wa[2],
      mean_given |-> mg] :
        f \in {<<FALSE, 1>>} \cup {<<TRUE, k>> : k \in 0..FMaxBranches},
        m \in RMasks, o \in {None, Some("none"), Some("sum"), Some("mean")},
        wa \in BOOLEAN \X {None, Some(2)}, mg \in BOOLEAN}

\* ContrastiveLoss(...)
ConstructReg ==
    /\ self.kind = "unbuilt"
    /\ \E a \in RInitArgs : self' = ContrastiveLoss_init(a)
    /\ UNCHANGED <<red, prep, ds, heap, variant, fwd, trace>>

\* The first invocation of the object.
ForwardReg ==
    /\ self.kind = "object"
    /\ ~fwd.called
    /\ \E a \in RArgs : \E r \in {forward(self, a, fwd.cuda)} :
          /\ self' = r.self
          /\ fwd' = [fwd EXCEPT !.count = fwd.count + 1, !.called = TRUE, !.args = a,
                                !.out = r.out]
          /\ trace' = r.trace
    /\ UNCHANGED <<red, prep, ds, heap, variant>>

NextReg == ConstructReg \/ ForwardReg

SpecReg == Init /\ [][NextReg]_vars

\* The elementwise classification loss of the k-th value of call c, from the
\* arguments: proto and dist keep the surviving tokens in the order of their
\* positions, bank orders them by class.
C11Element(c, k) ==
    CASE c.name = "proto" ->
           CrossEntropy([cls \in 1..Len(Branch(c, Get(c.mean))) |->
                            Dot(VRow(c, VRaster(c, k)), Branch(c, Get(c.mean))[cls])],
                        VLabel(c, VRaster(c, k)), c.class_weight)
      [] c.name = "dist" ->
           << <<IF IsNone(c.class_weight) THEN 1
                ELSE Get(c.class_weight)[VLabel(c, VRaster(c, k)) + 1],
                1, <<"ce_dist", VRow(c, VRaster(c, k)), <<VLabel(c, VRaster(c, k))>> >> >>,
              <<c.ratio * VRow(c, VRaster(c, k))[1] * VRow(c, VRaster(c, k))[1]
                  * Branch(c, Get(c.covariance))[VLabel(c, VRaster(c, k)) + 1][1],
                2, <<"1/T^2", <<>>, <<>> >> >> >>
      [] c.name = "bank" -> C10TokenLoss(c, k)

\* The classification term: the elementwise losses, weighted and reduced.
C11Classification(c) ==
    weight_reduce_loss([shape |-> <<Cardinality(VSurvivors(c))>>,
                        data |-> [k \in 1..Cardinality(VSurvivors(c)) |-> C11Element(c, k)]],
                       c.weight, c.reduction, c.avg_factor)

\* proto_reg of the surviving features and mean, normalised by
\* num_classes * ln(num_classes): the atom of their column sum, their number
\* and num_classes.
C11Regulariser(c) ==
    << <<1, 1, <<"proto_reg",
                 <<SumSeq([k \in 1..Cardinality(VSurvivors(c)) |-> VRow(c, VRaster(c, k))[1]])>>,
                 <<Cardinality(VSurvivors(c)), c.num_classes>> >> >> >>

\* The classification term plus reg_weight times the regulariser, the scalar
\* added to every element of an unreduced loss.
C11Expected(c) ==
    IF c.reg_weight = 0 \/ ~Returned(C11Classification(c)) THEN C11Classification(c)
    ELSE IF C11Classification(c).kind = "scalar"
    THEN Scalar(QAdd(C11Classification(c).num,
                     QScale(C11Regulariser(c), c.reg_weight * C11Classification(c).den, 1)),
                C11Classification(c).den)
    ELSE Tensor(C11Classification(c).shape,
                [p \in 1..Len(C11Classification(c).data) |->
                    QAdd(C11Classification(c).data[p],
                         QScale(C11Regulariser(c), c.reg_weight, 1))])

\* No part of the returned loss is a multiple of proto_reg.
NoRegAtom(r) ==
    /\ \A a \in QAtoms(r.num) : a[1] # "proto_reg"
    /\ \A p \in 1..Len(r.data) : \A a \in QAtoms(r.data[p]) : a[1] # "proto_reg"

\* The k-th call the last invocation made to the variant.
C11Call(k) == FCall(self, fwd.args, fwd.cuda, trace[k].index)

\* C11: every call forward makes to the variant carries reg_weight =
\* reg_relative_weight when use_reg is enabled and 0 otherwise. A variant
\* call with a surviving token that returns, returns the weighted and reduced
\* classification term when reg_weight = 0, with no proto_reg in it, and that
\* term plus reg_weight times proto_reg(surviving features, mean), normalised
\* by num_classes * ln(num_classes), when reg_weight > 0. With reg_weight = 0
\* bank_contrastive returns whether mean is given or not. forward on one
\* tensor returns loss_weight times that loss.
C11_RegulariserAdditivity ==
    fwd.called =>
        /\ \A k \in 1..Len(trace) :
              /\ trace[k].reg_weight = (IF self.use_reg THEN self.reg_weight ELSE 0)
              /\ C11Call(k).reg_weight = trace[k].reg_weight
              /\ (VSurvivors(C11Call(k)) # {} /\ Returned(contrast_criterion(C11Call(k))))
                    => /\ OutcomeEq(contrast_criterion(C11Call(k)), C11Expected(C11Call(k)))
                       /\ C11Call(k).reg_weight = 0
                             => NoRegAtom(contrast_criterion(C11Call(k)))
              /\ (/\ C11Call(k).name = "bank" /\ C11Call(k).reg_weight = 0
                  /\ VSurvivors(C11Call(k)) # {}
                  /\ ~(C11Call(k).reduction = "sum" /\ ~IsNone(C11Call(k).avg_factor)))
                    => Returned(contrast_criterion(C11Call(k)))
        /\ (~fwd.args.list /\ Returned(fwd.out) /\ VSurvivors(C11Call(1)) # {})
              => OutcomeEq(fwd.out, ScaleOutcome(self.given.v[1], C11Expected(C11Call(1))))

\* An object with use_reg and reg_relative_weight 2 was invoked on a list of
\* two features with a weight and reduction 'sum'; both calls to
\* dist_contrastive carried reg_weight 2 and the loss returned holds
\* proto_reg.
C11_Witness ==
    /\ fwd.called /\ self.use_reg /\ self.reg_weight = 2 /\ self.contrast_criterion = "dist"
    /\ fwd.args.list /\ Len(trace) = 2 /\ trace[2].reg_weight = 2
    /\ ~IsNone(fwd.args.weight) /\ fwd.args.override = Some("sum")
    /\ fwd.args.mask.data = <<1, 0>>
    /\ Returned(fwd.out) /\ ~NoRegAtom(fwd.out)

\* bank_contrastive was called with reg_weight 0 and no mean, and returned.
C11_BankWithoutMeanWitness ==
    /\ fwd.called /\ ~self.use_reg /\ self.contrast_criterion = "bank"
    /\ ~fwd.args.mean_given /\ fwd.args.mask.data = <<1, 0>>
    /\ Len(trace) = 1 /\ Returned(fwd.out)

====
